---- MODULE Spec2Model ----
(***************************************************************************)
(* Model of the optimize/ driver scripts of next-level:                    *)
(*   - run_all.py: the run-all sequencer (SeqSpec, SeqLive)                *)
(*   - meta_optimizers/*.py: the per-item optimization loop (JobSpec)      *)
(*   - meta_optimizers/*.py: answer_relevance, the relevance scorer        *)
(*     (ScoreSpec)                                                         *)
(***************************************************************************)
EXTENDS Integers, Sequences, FiniteSets, TLC

VARIABLES
    \* ---- run_all.py main() ----
    pc,           \* position of main(): "loop", "running", "done"
    i,            \* index in OPTIMIZERS of the script of the current iteration
    failed,       \* the list `failed`
    state,        \* per script: "pending", "running", "passed", "failed"
    launched,     \* scripts handed to subprocess.run, in order
    returncodes,  \* result.returncode of every finished child, in order
    hung,         \* TRUE when the running child never terminates
    printed,      \* what main() printed, in order
    exitCode,     \* exit code of the sequencer process (meaningful when pc = "done")
    \* ---- a job script (meta_optimizers/*.py) ----
    job,          \* which script runs
    dataset,      \* what dataset.get_items() returns
    items,        \* the module-level list `items`
    jpc,          \* position of the script: "load", "loop", "optimizing", "exited"
    idx,          \* index in items of the current iteration
    log,          \* console output and optimizer calls of the script, in order
    requests,     \* the optimize_prompt calls made, in order
    jobErr,       \* the uncaught exception, NoError when none
    jobExit,      \* exit code of the script (meaningful when jpc = "exited")
    \* ---- answer_relevance ----
    scJob,        \* which script's answer_relevance
    scItem,       \* dataset_item
    scPc,         \* "call", "returned", "raised"
    scErr,        \* the exception raised, NoError when none
    judgeCalls    \* the AnswerRelevance().score calls made (their context), in order

seqVars == <<pc, i, failed, state, launched, returncodes, hung, printed, exitCode>>
jobVars == <<job, dataset, items, jpc, idx, log, requests, jobErr, jobExit>>
scVars  == <<scJob, scItem, scPc, scErr, judgeCalls>>
vars    == <<seqVars, jobVars, scVars>>

(***************************************************************************)
(* Helpers                                                                 *)
(***************************************************************************)
IsPrefix(s, t) == Len(s) <= Len(t) /\ \A k \in 1..Len(s) : s[k] = t[k]

RECURSIVE SelectIdx(_, _, _)
\* the subsequence of scripts[k..] whose return code is non-zero
SelectIdx(scripts, codes, k) ==
    IF k > Len(codes) THEN <<>>
    ELSE (IF codes[k] # 0 THEN <<scripts[k]>> ELSE <<>>) \o SelectIdx(scripts, codes, k + 1)

(***************************************************************************)
(* run_all.py                                                              *)
(***************************************************************************)
OPTIMIZERS == << "meta_optimizers/user_skill_agent.py",
                 "meta_optimizers/skill_resource_retriever.py",
                 "meta_optimizers/challenge_generator.py" >>

\* exit codes a child can return: killed by signal 9, success, uncaught
\* exception, another failure code
ChildCodes == {-9, 0, 1, 2}

\* run_all.py is not the program that runs
SeqIdle ==
    /\ pc = "idle" /\ i = 0 /\ failed = <<>> /\ launched = <<>>
    /\ state = [k \in 1..Len(OPTIMIZERS) |-> "pending"]
    /\ returncodes = <<>> /\ hung = FALSE /\ printed = <<>> /\ exitCode = 0

SeqInit ==
    /\ pc = "loop"
    /\ i = 1
    /\ failed = <<>>
    /\ state = [k \in 1..Len(OPTIMIZERS) |-> "pending"]
    /\ launched = <<>>
    /\ returncodes = <<>>
    /\ hung = FALSE
    /\ printed = <<>>
    /\ exitCode = 0

\* the child is started and the loop goes on without waiting for it
LaunchNoWait ==
    /\ pc = "loop"
    /\ i <= Len(OPTIMIZERS)
    /\ printed' = Append(printed, <<"Running", OPTIMIZERS[i]>>)
    /\ launched' = Append(launched, OPTIMIZERS[i])
    /\ state' = [state EXCEPT ![i] = "running"]
    /\ IF i < Len(OPTIMIZERS)
       THEN i' = i + 1 /\ pc' = "loop"
       ELSE i' = i /\ pc' = "running"
    /\ UNCHANGED <<failed, returncodes, hung, exitCode>>
    /\ UNCHANGED <<jobVars, scVars>>

\* for script in OPTIMIZERS: print the banner and call subprocess.run, which
\* starts the child and blocks until it exits
Launch ==
    /\ pc = "loop"
    /\ i <= Len(OPTIMIZERS)
    /\ printed' = Append(printed, <<"Running", OPTIMIZERS[i]>>)
    /\ launched' = Append(launched, OPTIMIZERS[i])
    /\ state' = [state EXCEPT ![i] = "running"]
    /\ pc' = "running"
    /\ UNCHANGED <<i, failed, returncodes, hung, exitCode>>
    /\ UNCHANGED <<jobVars, scVars>>

\* a retry of a failed script, once
ChildExitRetry(code) ==
    /\ pc = "running"
    /\ ~hung
    /\ returncodes' = Append(returncodes, code)
    /\ IF code # 0
       THEN /\ failed' = Append(failed, OPTIMIZERS[i])
            /\ printed' = Append(printed, <<"FAILED", OPTIMIZERS[i], code>>)
            /\ state' = [state EXCEPT ![i] = "failed"]
       ELSE /\ state' = [state EXCEPT ![i] = "passed"]
            /\ UNCHANGED <<failed, printed>>
    /\ i' = IF code # 0 /\ Len(launched) = i THEN i ELSE i + 1
    /\ pc' = "loop"
    /\ UNCHANGED <<launched, hung, exitCode>>
    /\ UNCHANGED <<jobVars, scVars>>

\* a failure ends the loop
ChildExitBreak(code) ==
    /\ pc = "running"
    /\ ~hung
    /\ returncodes' = Append(returncodes, code)
    /\ IF code # 0
       THEN /\ failed' = Append(failed, OPTIMIZERS[i])
            /\ printed' = Append(printed, <<"FAILED", OPTIMIZERS[i], code>>)
            /\ state' = [state EXCEPT ![i] = "failed"]
            /\ i' = Len(OPTIMIZERS) + 1
       ELSE /\ state' = [state EXCEPT ![i] = "passed"]
            /\ i' = i + 1
            /\ UNCHANGED <<failed, printed>>
    /\ pc' = "loop"
    /\ UNCHANGED <<launched, hung, exitCode>>
    /\ UNCHANGED <<jobVars, scVars>>

\* the child exits with `code`: subprocess.run returns, the return code is
\* tested, and the loop goes to the next script
ChildExit(code) ==
    /\ pc = "running"
    /\ ~hung
    /\ returncodes' = Append(returncodes, code)
    /\ IF code # 0
       THEN /\ failed' = Append(failed, OPTIMIZERS[i])
            /\ printed' = Append(printed, <<"FAILED", OPTIMIZERS[i], code>>)
            /\ state' = [state EXCEPT ![i] = "failed"]
       ELSE /\ state' = [state EXCEPT ![i] = "passed"]
            /\ UNCHANGED <<failed, printed>>
    /\ i' = i + 1
    /\ pc' = "loop"
    /\ UNCHANGED <<launched, hung, exitCode>>
    /\ UNCHANGED <<jobVars, scVars>>

\* the child never terminates: subprocess.run has no timeout
ChildHang ==
    /\ pc = "running"
    /\ ~hung
    /\ hung' = TRUE
    /\ UNCHANGED <<pc, i, failed, state, launched, returncodes, printed, exitCode>>
    /\ UNCHANGED <<jobVars, scVars>>

\* the sequencer exits with the return code of the last child
SummaryLastCode ==
    /\ pc = "loop"
    /\ i > Len(OPTIMIZERS)
    /\ printed' = Append(printed,
            <<"Summary", Len(OPTIMIZERS), Len(OPTIMIZERS) - Len(failed),
              Len(failed), failed>>)
    /\ exitCode' = returncodes[Len(returncodes)]
    /\ pc' = "done"
    /\ UNCHANGED <<i, failed, state, launched, returncodes, hung>>
    /\ UNCHANGED <<jobVars, scVars>>

\* the first failed script is left out of the list
SummaryMiscount ==
    /\ pc = "loop"
    /\ i > Len(OPTIMIZERS)
    /\ printed' = Append(printed,
            <<"Summary", Len(OPTIMIZERS), Len(OPTIMIZERS) - Len(failed),
              Len(failed), IF failed = <<>> THEN failed ELSE Tail(failed)>>)
    /\ exitCode' = IF failed # <<>> THEN 1 ELSE 0
    /\ pc' = "done"
    /\ UNCHANGED <<i, failed, state, launched, returncodes, hung>>
    /\ UNCHANGED <<jobVars, scVars>>

\* after the loop: the summary, the list of failed scripts, the exit code
Summary ==
    /\ pc = "loop"
    /\ i > Len(OPTIMIZERS)
    /\ printed' = Append(printed,
            <<"Summary", Len(OPTIMIZERS), Len(OPTIMIZERS) - Len(failed),
              Len(failed), failed>>)
    /\ exitCode' = IF failed # <<>> THEN 1 ELSE 0
    /\ pc' = "done"
    /\ UNCHANGED <<i, failed, state, launched, returncodes, hung>>
    /\ UNCHANGED <<jobVars, scVars>>


(***************************************************************************)
(* Dataset items.  A field of a dataset item is a tagged value:            *)
(*   <<"absent">>      the key is not in the dict                          *)
(*   <<"null">>        the key is there with value None                    *)
(*   <<"str", s>>      a string, <<"list", l>> a list of strings,          *)
(*   <<"dict">>        a dict whose own keys are further fields            *)
(* An evaluation gives <<"ok", value>> or <<"raise", exception, key>>.     *)
(***************************************************************************)
MaxItems == 3        \* longest dataset
MaxSkills == 2       \* longest skills list (relevance scorer)

Absent == <<"absent">>
Null == <<"null">>
NoError == <<"none">>

Jobs == {"user_skill_agent", "skill_resource_retriever", "challenge_generator"}

SkillNames == {"Python", "SQL"}

SkillLists == UNION {[1..n -> SkillNames] : n \in 0..MaxSkills}

ItemFields == {"role", "skills", "careerGoals", "challenge",
               "learningObjectives", "sectionTopics", "expected"}

\* the item every field of which is there
GoodItem ==
    [role               |-> <<"str", "Engineer">>,
     skills             |-> <<"list", <<"Python", "SQL">> >>,
     careerGoals        |-> <<"list", <<"Lead">> >>,
     challenge          |-> <<"dict">>,
     learningObjectives |-> <<"list", <<"Joins">> >>,
     sectionTopics      |-> <<"list", <<"Indexes", "Views">> >>,
     expected           |-> <<"dict">>]

AllItems(skillLists) ==
    [role               : {Absent, GoodItem.role},
     skills             : {Absent, Null} \cup {<<"list", l>> : l \in skillLists},
     careerGoals        : {Absent, Null, GoodItem.careerGoals},
     challenge          : {Absent, GoodItem.challenge},
     learningObjectives : {Absent, Null, GoodItem.learningObjectives},
     sectionTopics      : {Absent, Null, GoodItem.sectionTopics},
     expected           : {Absent, GoodItem.expected}]

\* items of the datasets the job scripts run on: the good item, and the good
\* item with one field absent or null
JobItems == {it \in AllItems({GoodItem.skills[2]}) :
                /\ it.expected = GoodItem.expected
                /\ Cardinality({f \in ItemFields : it[f] # GoodItem[f]}) <= 1}

\* items the relevance scorer is called on
ScoreItems == {it \in AllItems(SkillLists) :
                it.learningObjectives = GoodItem.learningObjectives}

Datasets == UNION {[1..n -> JobItems] : n \in 0..MaxItems}

(***************************************************************************)
(* Python expressions of the scripts                                       *)
(***************************************************************************)
RECURSIVE Join(_, _)
\* sep.join(l)
Join(l, sep) ==
    IF l = <<>> THEN ""
    ELSE IF Len(l) = 1 THEN l[1]
    ELSE l[1] \o sep \o Join(Tail(l), sep)

Ok(v) == <<"ok", v>>
Raise(exc, key) == <<"raise", exc, key>>

\* d[f]
Lookup(it, f) ==
    IF it[f][1] = "absent" THEN Raise("KeyError", f) ELSE Ok(it[f])

\* a default stands for a key that is not there
StrOfDefault(it, f) ==
    CASE it[f][1] = "absent" -> Ok("N/A")
      [] it[f][1] = "null"   -> Ok("None")
      [] OTHER               -> Ok(it[f][2])

\* f"{d[f]}" of a scalar field
StrOf(it, f) ==
    CASE it[f][1] = "absent" -> Raise("KeyError", f)
      [] it[f][1] = "null"   -> Ok("None")
      [] OTHER               -> Ok(it[f][2])

RECURSIVE Reverse(_)
Reverse(l) == IF l = <<>> THEN <<>> ELSE Append(Reverse(Tail(l)), l[1])

\* the list is joined last element first
JoinOfReversed(it, f) ==
    CASE it[f][1] = "absent" -> Raise("KeyError", f)
      [] it[f][1] = "null"   -> Raise("TypeError", f)
      [] OTHER               -> Ok(Join(Reverse(it[f][2]), ", "))

\* None is joined as the empty list
JoinOfTolerant(it, f) ==
    CASE it[f][1] = "absent" -> Raise("KeyError", f)
      [] it[f][1] = "null"   -> Ok("")
      [] OTHER               -> Ok(Join(it[f][2], ", "))

\* ", ".join(d[f])
JoinOf(it, f) ==
    CASE it[f][1] = "absent" -> Raise("KeyError", f)
      [] it[f][1] = "null"   -> Raise("TypeError", f)
      [] OTHER               -> Ok(Join(it[f][2], ", "))

\* ", ".join(d[f] or [])
JoinOrEmpty(it, f) ==
    CASE it[f][1] = "absent" -> Raise("KeyError", f)
      [] it[f][1] = "null"   -> Ok("")
      [] OTHER               -> Ok(Join(it[f][2], ", "))

\* ", ".join(d.get(f) or [])
JoinGetOrEmpty(it, f) ==
    CASE it[f][1] \in {"absent", "null"} -> Ok("")
      [] OTHER                           -> Ok(Join(it[f][2], ", "))

\* the first exception of a sequence of evaluations done in order, or
\* <<"ok", values>>
Evaluate(evals) ==
    LET raising == {k \in 1..Len(evals) : evals[k][1] = "raise"}
    IN  IF raising = {}
        THEN Ok([k \in 1..Len(evals) |-> evals[k][2]])
        ELSE evals[CHOOSE k \in raising : \A m \in raising : k <= m]

\* prefix the string of an evaluation, as an f-string does
Prefixed(prefix, eval) ==
    IF eval[1] = "ok" THEN Ok(prefix \o eval[2]) ELSE eval

\* a keyword argument of prompt.format
Kwarg(name, eval) ==
    IF eval[1] = "ok" THEN Ok(<<name, eval[2]>>) ELSE eval

\* json.dumps of a field value
JsonOf(v) ==
    CASE v[1] = "null" -> "null"
      [] v[1] = "str"  -> "\"" \o v[2] \o "\""
      [] v[1] = "list" ->
            "[" \o Join([k \in 1..Len(v[2]) |-> "\"" \o v[2][k] \o "\""], ", ") \o "]"

\* json.dumps of d[f]
JsonLookup(it, f) ==
    IF it[f][1] = "absent" THEN Raise("KeyError", f) ELSE Ok(JsonOf(it[f]))

\* the scalar fields of an item that are there in every item of the model
Fixed ==
    [goalName            |-> "Learn ML",
     goalReasoning       |-> "Career growth",
     resourceTitle       |-> "SQL Basics",
     resourceProvider    |-> "Coursera",
     resourceType        |-> "course",
     resourceDescription |-> "An introduction",
     sectionTitle        |-> "Queries",
     difficulty          |-> "easy",
     totalQuestions      |-> "5",
     skillCount          |-> "3",
     excludedSkills      |-> <<"Python">>,
     minResourceCount    |-> "2",
     expectedProviders   |-> <<"Coursera", "Udemy">>]

DIFFICULTY_DESCRIPTIONS ==
    [easy   |-> "beginner-friendly questions that test basic recall and understanding",
     medium |-> "intermediate questions that require applying knowledge to scenarios",
     hard   |-> "advanced questions that require deep understanding and critical thinking"]

\* str.upper on the difficulty names
Upper(d) == [easy |-> "EASY", medium |-> "MEDIUM", hard |-> "HARD"][d]

(***************************************************************************)
(* answer_relevance: the context list of each script                       *)
(***************************************************************************)
\* dataset_item['expected'][f], formatted by g
ExpectedOf(it, g) ==
    IF it.expected[1] = "absent" THEN Raise("KeyError", "expected") ELSE Ok(g)

ContextUserSkillAgent(it) ==
    Evaluate(<<
        Prefixed("User role: ", StrOf(it, "role")),
        Prefixed("User current skills: ", JoinOf(it, "skills")),
        Prefixed("User career goals: ", JoinOf(it, "careerGoals")),
        Prefixed("Expected skill count: ", ExpectedOf(it, Fixed.skillCount)),
        Prefixed("Skills to exclude (user already has): ",
                 ExpectedOf(it, Join(Fixed.excludedSkills, ", "))),
        Ok("Output format: JSON Lines \\u2014 one JSON object per line with exactly these fields: name (string), priority (1-10), reasoning (string)") >>)

ContextSkillResourceRetriever(it) ==
    Evaluate(<<
        Prefixed("User role: ", StrOf(it, "role")),
        Prefixed("User current skills: ", JoinOf(it, "skills")),
        Prefixed("User career goals: ", JoinOf(it, "careerGoals")),
        Ok("Goal: " \o Fixed.goalName),
        Ok("Goal reasoning: " \o Fixed.goalReasoning),
        Ok("Expected minimum resources: " \o
            (IF it.expected[1] = "absent" THEN "N/A" ELSE Fixed.minResourceCount)),
        Ok("Expected providers: " \o
            (IF it.expected[1] = "absent" THEN Join(<<>>, ", ")
             ELSE Join(Fixed.expectedProviders, ", "))),
        Ok("Output format: Array of learning resources with: title, description, provider, resourceType, learningObjectives, sections") >>)

ContextChallengeGenerator(it) ==
    LET r == Evaluate(<<
            Lookup(it, "challenge"),
            Prefixed("User role: ", StrOf(it, "role")),
            Prefixed("User skills: ", JoinOf(it, "skills")),
            Prefixed("User career goals: ", JoinOf(it, "careerGoals")),
            Ok("Learning goal: " \o Fixed.goalName),
            Ok("Goal reasoning: " \o Fixed.goalReasoning),
            Ok("Resource: " \o Fixed.resourceTitle),
            Ok("Resource provider: " \o Fixed.resourceProvider),
            Ok("Section: " \o Fixed.sectionTitle),
            Ok("Difficulty: " \o Fixed.difficulty),
            Ok("Expected question count: " \o Fixed.totalQuestions),
            Prefixed("Topics: ", JoinGetOrEmpty(it, "sectionTopics")),
            Ok("Output format: Array of question objects with fields: questionNumber, question, options (A/B/C/D), correctAnswer, explanation, hint") >>)
    IN  IF r[1] = "ok" THEN Ok(Tail(r[2])) ELSE r

Context(j, it) ==
    CASE j = "user_skill_agent"         -> ContextUserSkillAgent(it)
      [] j = "skill_resource_retriever" -> ContextSkillResourceRetriever(it)
      [] j = "challenge_generator"      -> ContextChallengeGenerator(it)

(***************************************************************************)
(* The prompts of the optimization loop: system and user are the keyword   *)
(* arguments given to prompt.format, or the text itself                    *)
(***************************************************************************)
RenderUserSkillAgent(it) ==
    LET r == Evaluate(<<
            Kwarg("userRole", StrOf(it, "role")),
            Kwarg("userSkills", JoinOf(it, "skills")),
            Kwarg("userCareerGoals", JoinOf(it, "careerGoals")) >>)
    IN  IF r[1] = "ok" THEN Ok([system |-> <<>>, user |-> r[2]]) ELSE r

RenderSkillResourceRetriever(it) ==
    LET r == Evaluate(<<
            JsonLookup(it, "role"),
            JsonLookup(it, "skills"),
            JsonLookup(it, "careerGoals") >>)
    IN  IF r[1] = "ok"
        THEN Ok([system |-> <<>>,
                 user   |-> << <<"",
                    "{\"user\": {\"role\": " \o r[2][1] \o
                    ", \"skills\": " \o r[2][2] \o
                    ", \"careerGoals\": " \o r[2][3] \o
                    "}, \"goal\": {\"name\": \"" \o Fixed.goalName \o
                    "\", \"reasoning\": \"" \o Fixed.goalReasoning \o "\"}}" >> >>])
        ELSE r

RenderChallengeGenerator(it) ==
    LET difficulty == Fixed.difficulty
        r == Evaluate(<<
            Lookup(it, "challenge"),
            \* system_prompt.format
            Ok(<<"questionsPerChallenge", Fixed.totalQuestions>>),
            Ok(<<"difficultyDescription", DIFFICULTY_DESCRIPTIONS[difficulty]>>),
            Ok(<<"sectionTitle", Fixed.sectionTitle>>),
            Ok(<<"difficultyUpper", Upper(difficulty)>>),
            \* user_prompt.format
            Ok(<<"questionsPerChallenge", Fixed.totalQuestions>>),
            Ok(<<"difficulty", difficulty>>),
            Kwarg("userRole", StrOf(it, "role")),
            Kwarg("userSkills", JoinOf(it, "skills")),
            Kwarg("userCareerGoals", JoinOf(it, "careerGoals")),
            Ok(<<"goalName", Fixed.goalName>>),
            Ok(<<"goalReasoning", Fixed.goalReasoning>>),
            Ok(<<"resourceTitle", Fixed.resourceTitle>>),
            Ok(<<"resourceProvider", Fixed.resourceProvider>>),
            Ok(<<"resourceType", Fixed.resourceType>>),
            Ok(<<"resourceDescription", Fixed.resourceDescription>>),
            Kwarg("learningObjectives", JoinOf(it, "learningObjectives")),
            Ok(<<"sectionTitle", Fixed.sectionTitle>>),
            Kwarg("sectionTopics", JoinOrEmpty(it, "sectionTopics")) >>)
    IN  IF r[1] = "ok"
        THEN Ok([system |-> SubSeq(r[2], 2, 5), user |-> SubSeq(r[2], 6, 19)])
        ELSE r

Render(j, it) ==
    CASE j = "user_skill_agent"         -> RenderUserSkillAgent(it)
      [] j = "skill_resource_retriever" -> RenderSkillResourceRetriever(it)
      [] j = "challenge_generator"      -> RenderChallengeGenerator(it)

(***************************************************************************)
(* A job script: module-level code of meta_optimizers/*.py                 *)
(***************************************************************************)
JobIdle ==
    /\ job = "none" /\ dataset = <<>> /\ items = <<>> /\ jpc = "idle" /\ idx = 0
    /\ log = <<>> /\ requests = <<>> /\ jobErr = NoError /\ jobExit = 0

JobInit ==
    /\ job \in Jobs
    /\ dataset \in Datasets
    /\ items = <<>>
    /\ jpc = "load"
    /\ idx = 1
    /\ log = <<>>
    /\ requests = <<>>
    /\ jobErr = NoError
    /\ jobExit = 0

\* an uncaught exception ends the script with exit code 1
Uncaught(exc) ==
    /\ jobErr' = exc
    /\ jpc' = "exited"
    /\ jobExit' = 1

\* items = dataset.get_items(), or [dataset.get_items()[0]] in
\* challenge_generator.py
LoadItems ==
    /\ jpc = "load"
    /\ IF job = "challenge_generator"
       THEN IF dataset = <<>>
            THEN /\ Uncaught(Raise("IndexError", "0"))
                 /\ UNCHANGED <<items, idx>>
            ELSE /\ items' = <<dataset[1]>>
                 /\ jpc' = "loop"
                 /\ UNCHANGED <<idx, jobErr, jobExit>>
       ELSE /\ items' = dataset
            /\ jpc' = "loop"
            /\ UNCHANGED <<idx, jobErr, jobExit>>
    /\ UNCHANGED <<job, dataset, log, requests>>
    /\ UNCHANGED <<seqVars, scVars>>

\* an item whose prompts cannot be formatted is skipped
IterBeginContinue ==
    /\ jpc = "loop"
    /\ idx <= Len(items)
    /\ LET r == Render(job, items[idx])
       IN  IF r[1] = "raise"
           THEN /\ jobErr' = r
                /\ idx' = idx + 1
                /\ UNCHANGED <<log, requests, jpc, jobExit>>
           ELSE /\ log' = log \o << <<"name", idx>>, <<"submit", idx>> >>
                /\ requests' = Append(requests,
                        [item |-> idx, prompt |-> r[2], n_samples |-> 10])
                /\ jpc' = "optimizing"
                /\ UNCHANGED <<jobErr, jobExit, idx>>
    /\ UNCHANGED <<job, dataset, items>>
    /\ UNCHANGED <<seqVars, scVars>>

\* for item in items: format the prompts, print the name of the item and
\* call optimizer.optimize_prompt
IterBegin ==
    /\ jpc = "loop"
    /\ idx <= Len(items)
    /\ LET r == Render(job, items[idx])
       IN  IF r[1] = "raise"
           THEN /\ Uncaught(r)
                /\ UNCHANGED <<log, requests>>
           ELSE /\ log' = log \o << <<"name", idx>>, <<"submit", idx>> >>
                /\ requests' = Append(requests,
                        [item |-> idx, prompt |-> r[2], n_samples |-> 10])
                /\ jpc' = "optimizing"
                /\ UNCHANGED <<jobErr, jobExit>>
    /\ UNCHANGED <<job, dataset, items, idx>>
    /\ UNCHANGED <<seqVars, scVars>>

\* optimize_prompt returns: result.display(), then the next item
OptimizerReturns ==
    /\ jpc = "optimizing"
    /\ log' = Append(log, <<"display", idx>>)
    /\ idx' = idx + 1
    /\ jpc' = "loop"
    /\ UNCHANGED <<job, dataset, items, requests, jobErr, jobExit>>
    /\ UNCHANGED <<seqVars, scVars>>

\* optimize_prompt raises
OptimizerRaises ==
    /\ jpc = "optimizing"
    /\ Uncaught(Raise("OptimizerError", "optimize_prompt"))
    /\ UNCHANGED <<job, dataset, items, idx, log, requests>>
    /\ UNCHANGED <<seqVars, scVars>>

\* the loop is over and so is the script
ScriptEnd ==
    /\ jpc = "loop"
    /\ idx > Len(items)
    /\ jpc' = "exited"
    /\ jobExit' = 0
    /\ UNCHANGED <<job, dataset, items, idx, log, requests, jobErr>>
    /\ UNCHANGED <<seqVars, scVars>>

(***************************************************************************)
(* A call of answer_relevance                                              *)
(***************************************************************************)
ScoreIdle ==
    /\ scJob = "none" /\ scItem = GoodItem /\ scPc = "idle"
    /\ scErr = NoError /\ judgeCalls = <<>>

ScoreInit ==
    /\ scJob \in Jobs
    /\ scItem \in ScoreItems
    /\ scPc = "call"
    /\ scErr = NoError
    /\ judgeCalls = <<>>

\* the context list is built, then AnswerRelevance().score is called with it
Score ==
    /\ scPc = "call"
    /\ LET r == Context(scJob, scItem)
       IN  IF r[1] = "raise"
           THEN /\ scErr' = r
                /\ scPc' = "raised"
                /\ UNCHANGED judgeCalls
           ELSE /\ judgeCalls' = Append(judgeCalls, r[2])
                /\ scPc' = "judging"
                /\ UNCHANGED scErr
    /\ UNCHANGED <<scJob, scItem>>
    /\ UNCHANGED <<seqVars, jobVars>>

\* metric.score returns and its result is returned
JudgeReturns ==
    /\ scPc = "judging"
    /\ scPc' = "returned"
    /\ UNCHANGED <<scJob, scItem, scErr, judgeCalls>>
    /\ UNCHANGED <<seqVars, jobVars>>

(***************************************************************************)
(* Specifications                                                          *)
(***************************************************************************)
SeqNext ==
    \/ Launch
    \/ \E code \in ChildCodes : ChildExit(code)
    \/ ChildHang
    \/ Summary

JobNext ==
    \/ LoadItems
    \/ IterBegin
    \/ OptimizerReturns
    \/ OptimizerRaises
    \/ ScriptEnd

ScoreNext ==
    \/ Score
    \/ JudgeReturns

\* python run_all.py
SeqStart == SeqInit /\ JobIdle /\ ScoreIdle

SeqSpec == SeqStart /\ [][SeqNext]_vars

\* run_all.py under the scheduling of a sequential program: a step that can
\* be taken is taken
SeqLive == SeqStart /\ [][SeqNext]_vars /\ WF_vars(SeqNext)

\* python meta_optimizers/<job>.py
JobStart == JobInit /\ SeqIdle /\ ScoreIdle

JobSpec == JobStart /\ [][JobNext]_vars

\* the optimizer calls answer_relevance(dataset_item, llm_output)
ScoreStart == ScoreInit /\ SeqIdle /\ JobIdle

ScoreSpec == ScoreStart /\ [][ScoreNext]_vars

(***************************************************************************)
(* Properties of the run-all sequencer                                     *)
(***************************************************************************)
Finished == {"passed", "failed"}

NonZero(codes) == {k \in 1..Len(codes) : codes[k] # 0}

Summaries == {k \in 1..Len(printed) : printed[k][1] = "Summary"}

\* C1: whatever the children return, every one of the three scripts is
\* launched: when the sequencer is done all of OPTIMIZERS were launched, and a
\* script that failed leaves the loop about to launch the next one.
C1_AllJobsLaunched ==
    /\ pc = "done" => launched = OPTIMIZERS
    /\ \A k \in 1..(Len(OPTIMIZERS) - 1) :
          (state[k] = "failed" /\ state[k + 1] = "pending")
              => (pc = "loop" /\ i = k + 1)

C1_Witness ==
    /\ pc = "done"
    /\ \A k \in 1..Len(OPTIMIZERS) : state[k] = "failed"
    /\ launched = OPTIMIZERS

\* C2: the sequencer exits with 1 exactly when some child returned a non-zero
\* code (a negative one as well), with 0 otherwise, and so never with a
\* child's own code.
C2_ExitCode ==
    pc = "done" =>
        /\ exitCode \in {0, 1}
        /\ exitCode = 1 <=> NonZero(returncodes) # {}

C2_Witness ==
    /\ pc = "done"
    /\ returncodes = <<0, -9, 2>>
    /\ exitCode = 1

\* C3: the summary has Total 3, Failed the number of non-zero return codes,
\* Passed the number of zero ones, and lists exactly the scripts that
\* returned non-zero, once each, in the order they ran.
C3_Summary ==
    pc = "done" =>
        LET sm == printed[Len(printed)]
        IN  /\ sm[1] = "Summary"
            /\ sm[2] = 3
            /\ sm[4] = Cardinality(NonZero(returncodes))
            /\ sm[3] = Cardinality({k \in 1..Len(returncodes) : returncodes[k] = 0})
            /\ sm[3] + sm[4] = sm[2]
            /\ sm[5] = SelectIdx(OPTIMIZERS, returncodes, 1)

C3_Witness ==
    /\ pc = "done"
    /\ returncodes = <<0, 1, 0>>
    /\ printed[Len(printed)] = <<"Summary", 3, 2, 1, <<OPTIMIZERS[2]>> >>
    /\ launched[3] = OPTIMIZERS[3]
    /\ exitCode = 1

\* C4: every script is pending, running, passed or failed; at most one is
\* running; scripts are launched in the listed order, script k+1 leaving
\* pending only once script k is passed or failed; and a script that is
\* passed or failed stays so.
C4_OneAtATime ==
    /\ [](/\ \A k \in 1..Len(OPTIMIZERS) :
                state[k] \in {"pending", "running", "passed", "failed"}
          /\ Cardinality({k \in 1..Len(OPTIMIZERS) : state[k] = "running"}) <= 1
          /\ IsPrefix(launched, OPTIMIZERS)
          /\ \A k \in 1..(Len(OPTIMIZERS) - 1) :
                state[k + 1] # "pending" => state[k] \in Finished)
    /\ [][\A k \in 1..Len(OPTIMIZERS) :
                state[k] \in Finished => state'[k] = state[k]]_vars

C4_Witness ==
    /\ state[1] = "failed"
    /\ state[2] = "running"
    /\ state[3] = "pending"

\* C10: if every child terminates the sequencer ends, having launched each
\* script once and printed one summary, after the last child finished; once a
\* child hangs no other script is launched and no summary is printed.
C10_Termination ==
    /\ <>(pc = "done" \/ hung)
    /\ [](pc = "done" =>
            /\ launched = OPTIMIZERS
            /\ Len(returncodes) = Len(OPTIMIZERS)
            /\ Summaries = {Len(printed)})
    /\ [](hung => pc = "running" /\ Summaries = {}
                  /\ launched = SubSeq(OPTIMIZERS, 1, i))
    /\ [][hung => hung' /\ launched' = launched /\ printed' = printed]_vars

C10_Witness ==
    /\ pc = "done"
    /\ ~hung
    /\ Len(launched) = Len(OPTIMIZERS)
    /\ Cardinality(Summaries) = 1

(***************************************************************************)
(* Properties of the job scripts                                           *)
(***************************************************************************)
RECURSIVE ItemEvents(_, _)
\* name, submit, display of the items k..n, item after item
ItemEvents(k, n) ==
    IF k > n THEN <<>>
    ELSE << <<"name", k>>, <<"submit", k>>, <<"display", k>> >> \o ItemEvents(k + 1, n)

\* the formatting of item k of items was started
Attempted(k) == idx > k \/ (idx = k /\ jpc \in {"optimizing", "exited"})

Requested(k) == \E n \in 1..Len(requests) : requests[n].item = k

\* the list fields a script joins with ", " when it formats its prompts
JoinedFields(j) ==
    CASE j = "user_skill_agent"         -> {"skills", "careerGoals"}
      [] j = "skill_resource_retriever" -> {}
      [] j = "challenge_generator"      ->
            {"skills", "careerGoals", "learningObjectives", "sectionTopics"}

RenderFailed(k) ==
    /\ jpc = "exited"
    /\ idx = k
    /\ jobErr[1] = "raise"
    /\ jobErr[2] \in {"KeyError", "TypeError"}
    /\ jobExit # 0
    /\ ~Requested(k)

\* C5: a script that ends without a failure has made one optimize_prompt
\* call with n_samples 10 for every item of its dataset, in dataset order,
\* each between the print of the item's name and the display of its result.
C5_EveryItemOnce ==
    (jpc = "exited" /\ jobErr = NoError) =>
        /\ Len(requests) = Len(dataset)
        /\ \A n \in 1..Len(requests) :
              requests[n].item = n /\ requests[n].n_samples = 10
        /\ log = ItemEvents(1, Len(dataset))

\* C6: when the formatting or the optimizer fails on item k the script ends
\* with a non-zero exit code, nothing of an item after k was printed or
\* submitted, no item was submitted twice, the results of the items before k
\* were displayed, and what was printed stays.
C6_FailureAborts ==
    /\ []((jpc = "exited" /\ jobErr[1] = "raise"
                 /\ jobErr[2] \in {"KeyError", "TypeError", "OptimizerError"}) =>
            /\ jobExit # 0
            /\ \A n \in 1..Len(log) : log[n][2] <= idx
            /\ \A n \in 1..Len(requests) : requests[n].item <= idx
            /\ \A m, n \in 1..Len(requests) :
                  requests[m].item = requests[n].item => m = n
            /\ \A k \in 1..(idx - 1) : \E n \in 1..Len(log) : log[n] = <<"display", k>>
            /\ ~\E n \in 1..Len(log) : log[n] = <<"display", idx>>)
    /\ [][IsPrefix(log, log') /\ IsPrefix(requests, requests')]_vars
    /\ [][jpc = "exited" => UNCHANGED <<log, requests, jobExit>>]_vars

C6_Witness ==
    /\ jpc = "exited"
    /\ jobErr = Raise("TypeError", "careerGoals")
    /\ idx = 2
    /\ Len(items) = 3
    /\ log = ItemEvents(1, 1)
    /\ jobExit = 1

\* C8 as stated: whenever a list field that the script joins with ", " is
\* absent or null in an item, formatting the item fails and the item is not
\* submitted.
C8_JoinFails ==
    \A k \in 1..Len(items) :
        (/\ Attempted(k)
         /\ \E f \in JoinedFields(job) : items[k][f][1] \in {"absent", "null"})
            => RenderFailed(k)

\* C8 amended: whenever a list field that the script joins with ", " is
\* absent, or is null and is not sectionTopics, formatting the item fails and
\* the item is not submitted; an item of challenge_generator whose only such
\* field is a null sectionTopics is submitted with sectionTopics the empty
\* string.
C8_JoinFailsButTopics ==
    \A k \in 1..Len(items) :
        Attempted(k) =>
            /\ (\E f \in JoinedFields(job) :
                    \/ items[k][f][1] = "absent"
                    \/ items[k][f][1] = "null" /\ f # "sectionTopics")
                  => RenderFailed(k)
            /\ (/\ job = "challenge_generator"
                /\ items[k] = [GoodItem EXCEPT !.sectionTopics = Null])
                  => /\ Requested(k)
                     /\ \A n \in 1..Len(requests) :
                           requests[n].item = k =>
                              requests[n].prompt.user[Len(requests[n].prompt.user)]
                                  = <<"sectionTopics", "">>

C8_Witness ==
    /\ job = "challenge_generator"
    /\ items # <<>>
    /\ items[1].learningObjectives = Null
    /\ RenderFailed(1)
    /\ jobErr = Raise("TypeError", "learningObjectives")

(***************************************************************************)
(* Properties of answer_relevance                                          *)
(***************************************************************************)
RECURSIVE CommaSeparated(_)
\* the elements of l in their order with ", " between them
CommaSeparated(l) ==
    IF Len(l) = 0 THEN ""
    ELSE IF Len(l) = 1 THEN l[1]
    ELSE CommaSeparated(SubSeq(l, 1, Len(l) - 1)) \o ", " \o l[Len(l)]

\* C7 as stated: on an item without input.user.role every script's scorer
\* raises the missing-key error (KeyError) that names role, and the judge is
\* not called.
C7_MissingRole ==
    (scItem.role = Absent /\ scPc # "call") =>
        /\ scPc = "raised"
        /\ scErr = Raise("KeyError", "role")
        /\ judgeCalls = <<>>

\* C7 amended: on an item without input.user.role, and in challenge_generator
\* with input.challenge, the scorer raises the missing-key error (KeyError)
\* that names role, and the judge is not called.
C7_MissingRoleAfterChallenge ==
    (/\ scItem.role = Absent
     /\ scPc # "call"
     /\ scJob = "challenge_generator" => scItem.challenge # Absent) =>
        /\ scPc = "raised"
        /\ scErr = Raise("KeyError", "role")
        /\ judgeCalls = <<>>

C7_Witness ==
    /\ scJob = "challenge_generator"
    /\ scItem.role = Absent
    /\ scItem.challenge # Absent
    /\ scPc = "raised"
    /\ scErr = Raise("KeyError", "role")

\* the entries of a context come in the order of the scorer's list: role,
\* skills, career goals first
InListedOrder(ctx, skillsEntry) ==
    /\ Len(ctx) = (CASE scJob = "user_skill_agent" -> 6
                     [] scJob = "skill_resource_retriever" -> 8
                     [] scJob = "challenge_generator" -> 12)
    /\ ctx[1] = "User role: " \o scItem.role[2]
    /\ ctx[2] = skillsEntry
    /\ ctx[3] = "User career goals: " \o CommaSeparated(scItem.careerGoals[2])
    /\ SubSeq(ctx[Len(ctx)], 1, 15) = "Output format: "

\* C9 as stated: the context given to the judge by every script's scorer has
\* the entry "User current skills: " followed by the skills joined with ", "
\* in their order, and its entries are in the order of the scorer's list.
C9_CurrentSkills ==
    \A n \in 1..Len(judgeCalls) :
        InListedOrder(judgeCalls[n],
            "User current skills: " \o CommaSeparated(scItem.skills[2]))

\* C9 amended: the entry is "User current skills: " in user_skill_agent and
\* skill_resource_retriever and "User skills: " in challenge_generator,
\* followed by the skills joined with ", " in their order, and the entries are
\* in the order of the scorer's list.
C9_SkillsEntry ==
    \A n \in 1..Len(judgeCalls) :
        InListedOrder(judgeCalls[n],
            (IF scJob = "challenge_generator"
             THEN "User skills: " ELSE "User current skills: ")
                \o CommaSeparated(scItem.skills[2]))

C9_Witness ==
    /\ scJob = "skill_resource_retriever"
    /\ scItem.skills = <<"list", <<"Python", "SQL">> >>
    /\ scPc = "returned"
    /\ judgeCalls # <<>>
    /\ judgeCalls[1][2] = "User current skills: Python, SQL"

====
